---- MODULE Spec2Model ----
(***************************************************************************)
(* Model of the paired-end stitching pipeline of analyze_crispresso.py:    *)
(* the translation table and get_reverse_complement, the streaming loop of *)
(* stitch_paired_end_reads_stream with its three gzip stages, and the part *)
(* of build_command that decides whether stitching runs.                   *)
(*                                                                         *)
(* Text is modelled as sequences of one-character strings; a line read by  *)
(* readline() keeps its trailing "\n", as in Python.                       *)
(***************************************************************************)
EXTENDS Integers, Sequences, FiniteSets, TLC

(* ------------------------------ bounds --------------------------------- *)
\* longest input of the reverse-complement checks
MaxSeqLen == 2
\* most records in either input FASTQ file
MaxRecs == 2
\* largest padding length tried
MaxPad == 2
\* capacity of each pipe between a stage and the loop (lines in, records out)
PipeCap == 2

(* ------------------------- strings and lines --------------------------- *)
NL == "\n"
Whitespace == {" ", "\t", "\r", NL}

Reverse(s) == [i \in 1..Len(s) |-> s[Len(s) + 1 - i]]

Repeat(c, n) == [i \in 1..n |-> c]

RECURSIVE LStrip(_)
LStrip(s) == IF s # <<>> /\ Head(s) \in Whitespace THEN LStrip(Tail(s)) ELSE s

RECURSIVE RStrip(_)
RStrip(s) ==
    IF s # <<>> /\ s[Len(s)] \in Whitespace
    THEN RStrip(SubSeq(s, 1, Len(s) - 1))
    ELSE s

\* str.strip()
Strip(s) == RStrip(LStrip(s))

(* ----------------------- reverse complement ---------------------------- *)
\* TRANS_TABLE = str.maketrans("ATCGNabcde", "TAGCNtagcn")
TransFrom == <<"A", "T", "C", "G", "N", "a", "b", "c", "d", "e">>
TransTo == <<"T", "A", "G", "C", "N", "t", "a", "g", "c", "n">>

TRANS_TABLE(c) ==
    IF \E i \in 1..Len(TransFrom) : TransFrom[i] = c
    THEN TransTo[CHOOSE i \in 1..Len(TransFrom) : TransFrom[i] = c]
    ELSE c

\* str.translate(TRANS_TABLE)
Translate(s) == [i \in 1..Len(s) |-> TRANS_TABLE(s[i])]

get_reverse_complement(seq) == Reverse(Translate(seq))

\* the inline transform of the loop: r2_seq.translate(TRANS_TABLE)[::-1]
InlineReverseComplement(r2_seq) == Reverse(Translate(r2_seq))

(* --------------------------- input FASTQ files ------------------------- *)
\* The i-th record of each input file; contents differ by index so that
\* order, pairing and case handling are visible in the output.
SeqsA == << <<"A", "c">>, <<"G">>, <<"t", "N", "a">> >>
QualsA == << <<"I", "5">>, <<"F">>, <<"#", "I", "9">> >>
SeqsB == << <<"g", "T">>, <<"C", "a", "N">>, <<"n">> >>
QualsB == << <<"J", "2">>, <<"7", "H", "K">>, <<"8">> >>

Pick(table, i) == table[((i - 1) % Len(table)) + 1]

\* four lines: identifier, sequence, separator, quality
RecordA(i) ==
    << <<"@a" \o ToString(i), " ", NL>>,
       Pick(SeqsA, i) \o <<NL>>,
       (IF i % 2 = 0 THEN <<"+", "a" \o ToString(i), NL>> ELSE <<"+", NL>>),
       Pick(QualsA, i) \o <<NL>> >>

RecordB(i) ==
    << <<"@b" \o ToString(i), NL>>,
       Pick(SeqsB, i) \o <<NL>>,
       <<"+", "b" \o ToString(i), NL>>,
       Pick(QualsB, i) \o <<NL>> >>

\* the lines of a file of k records
RECURSIVE LinesA(_)
LinesA(k) == IF k = 0 THEN <<>> ELSE LinesA(k - 1) \o RecordA(k)

RECURSIVE LinesB(_)
LinesB(k) == IF k = 0 THEN <<>> ELSE LinesB(k - 1) \o RecordB(k)

\* a line whose bytes are not valid text: reading it raises UnicodeDecodeError
BadLine == <<"\\xff", NL>>

\* the file with its last line replaced by undecodable bytes
Corrupt(lines) ==
    IF lines = <<>> THEN lines
    ELSE [i \in 1..Len(lines) |-> IF i = Len(lines) THEN BadLine ELSE lines[i]]

\* the file with its last quality line one character short
Ragged(lines) ==
    IF lines = <<>> THEN lines
    ELSE [i \in 1..Len(lines) |->
            IF i = Len(lines) THEN Tail(lines[i]) ELSE lines[i]]

FilesA == {LinesA(k) : k \in 0..MaxRecs}
FilesB ==
    {LinesB(k) : k \in 0..MaxRecs}
        \cup {Corrupt(LinesB(k)) : k \in 1..MaxRecs}
        \cup {Ragged(LinesB(k)) : k \in 1..MaxRecs}

(* ------------------------------- state --------------------------------- *)
VARIABLES
    n_padding,    \* build_command / stitch argument
    r2_given,     \* whether fastq_r2 was passed to build_command
    fastqA,       \* decompressed lines of the read-1 file
    fastqB,       \* decompressed lines of the read-2 file
    bc_pc,        \* position of build_command
    cmd,          \* the command build_command returns
    pc,           \* position of stitch_paired_end_reads_stream
    exc,          \* an exception is unwinding the with-blocks
    proc,         \* status of the child processes p1, p2, p_out
    pos,          \* lines each decompressor has written to its pipe
    pipe,         \* lines in flight from p1 / p2 to the loop
    rdClosed,     \* the loop closed its end of p1.stdout / p2.stdout
    outPipe,      \* records in flight from the loop to p_out
    outClosed,    \* p_out.stdin was closed
    fileExists,   \* output_path exists
    fileContent,  \* records the compressor has stored in output_path
    created,      \* how many times output_path was created
    r1_id, r2_id, r1_seq, r2_seq, r1_qual, r2_qual, count,
    emitted,      \* every record written to fout_stream, in order
    rc_pc, rc_in, rc_out, rc_inline, rc_twice
                  \* harness applying the reverse complement to one input

stitchVars ==
    <<pc, exc, proc, pos, pipe, rdClosed, outPipe, outClosed, fileExists,
      fileContent, created, r1_id, r2_id, r1_seq, r2_seq, r1_qual, r2_qual,
      count, emitted>>
inputVars == <<n_padding, r2_given, fastqA, fastqB>>
rcVars == <<rc_pc, rc_in, rc_out, rc_inline, rc_twice>>
vars == <<inputVars, bc_pc, cmd, stitchVars, rcVars>>

NoCmd == [r1 |-> "none", r2 |-> "none"]

StitchIdle ==
    /\ pc = "idle"
    /\ exc = FALSE
    /\ proc = [p1 |-> "none", p2 |-> "none", p_out |-> "none"]
    /\ pos = [p1 |-> 0, p2 |-> 0]
    /\ pipe = [p1 |-> <<>>, p2 |-> <<>>]
    /\ rdClosed = [p1 |-> FALSE, p2 |-> FALSE]
    /\ outPipe = <<>>
    /\ outClosed = FALSE
    /\ fileExists = FALSE
    /\ fileContent = <<>>
    /\ created = 0
    /\ r1_id = <<>> /\ r2_id = <<>>
    /\ r1_seq = <<>> /\ r2_seq = <<>>
    /\ r1_qual = <<>> /\ r2_qual = <<>>
    /\ count = 0
    /\ emitted = <<>>

RcIdle ==
    /\ rc_pc = "off"
    /\ rc_in = <<>> /\ rc_out = <<>> /\ rc_inline = <<>> /\ rc_twice = <<>>

Init ==
    /\ n_padding \in -1..MaxPad
    /\ r2_given \in BOOLEAN
    /\ fastqA \in FilesA
    /\ fastqB \in IF r2_given THEN FilesB ELSE {<<>>}
    /\ bc_pc = "start"
    /\ cmd = NoCmd
    /\ StitchIdle
    /\ RcIdle

(* ---------------------------- build_command ---------------------------- *)
locals == <<r1_id, r2_id, r1_seq, r2_seq, r1_qual, r2_qual>>
stageVars == <<proc, pos, pipe, rdClosed, outPipe, outClosed>>
fileVars == <<fileExists, fileContent, created>>

\* faulty variant: the padding test is dropped from the stitching condition
BuildCommandEnterNoPadCheck ==
    /\ bc_pc = "start"
    /\ IF r2_given
       THEN /\ bc_pc' = "stitching"
            /\ pc' = "popen1"
            /\ cmd' = cmd
       ELSE /\ bc_pc' = "done"
            /\ pc' = pc
            /\ cmd' = [r1 |-> "fastq_r1", r2 |-> "none"]
    /\ UNCHANGED <<inputVars, exc, stageVars, fileVars, locals, count, emitted, rcVars>>

\* lines 143-146: stitch only when n_padding > 0 and fastq_r2 is given;
\* otherwise lines 167-181 build the command from the original files
BuildCommandEnter ==
    /\ bc_pc = "start"
    /\ IF n_padding > 0 /\ r2_given
       THEN /\ bc_pc' = "stitching"
            /\ pc' = "popen1"
            /\ cmd' = cmd
       ELSE /\ bc_pc' = "done"
            /\ pc' = pc
            /\ cmd' = [r1 |-> "fastq_r1",
                       r2 |-> IF r2_given THEN "fastq_r2" ELSE "none"]
    /\ UNCHANGED <<inputVars, exc, stageVars, fileVars, locals, count, emitted, rcVars>>

\* lines 164-181: the stitched file replaces read 1 and read 2 is dropped
BuildCommandAfterStitch ==
    /\ bc_pc = "stitching"
    /\ pc = "returned"
    /\ bc_pc' = "done"
    /\ cmd' = [r1 |-> "stitched_file", r2 |-> "none"]
    /\ UNCHANGED <<inputVars, stitchVars, rcVars>>

\* line 161: an exception of the stitcher leaves build_command
BuildCommandRaise ==
    /\ bc_pc = "stitching"
    /\ pc = "raised"
    /\ bc_pc' = "raised"
    /\ UNCHANGED <<inputVars, cmd, stitchVars, rcVars>>

(* ------------------ stitch_paired_end_reads_stream --------------------- *)
pad_seq == Repeat("N", n_padding)
pad_qual == Repeat("!", n_padding)

\* a Popen either starts the child or raises OSError
Popen1 ==
    /\ pc = "popen1"
    /\ \/ /\ proc' = [proc EXCEPT !.p1 = "running"]
          /\ pc' = "popen2"
          /\ exc' = exc
       \/ /\ proc' = proc
          /\ pc' = "except"
          /\ exc' = TRUE
    /\ UNCHANGED <<inputVars, bc_pc, cmd, pos, pipe, rdClosed, outPipe, outClosed,
                   fileVars, locals, count, emitted, rcVars>>

Popen2 ==
    /\ pc = "popen2"
    /\ \/ /\ proc' = [proc EXCEPT !.p2 = "running"]
          /\ pc' = "open"
          /\ exc' = exc
       \/ /\ proc' = proc
          /\ pc' = "exit_p1"
          /\ exc' = TRUE
    /\ UNCHANGED <<inputVars, bc_pc, cmd, pos, pipe, rdClosed, outPipe, outClosed,
                   fileVars, locals, count, emitted, rcVars>>

\* open(output_path, "wb") creates or truncates the file, or raises OSError
OpenOutput ==
    /\ pc = "open"
    /\ \/ /\ fileExists' = TRUE
          /\ fileContent' = <<>>
          /\ created' = created + 1
          /\ pc' = "popen_out"
          /\ exc' = exc
       \/ /\ UNCHANGED fileVars
          /\ pc' = "exit_p2"
          /\ exc' = TRUE
    /\ UNCHANGED <<inputVars, bc_pc, cmd, stageVars, locals, count, emitted, rcVars>>

PopenOut ==
    /\ pc = "popen_out"
    /\ \/ /\ proc' = [proc EXCEPT !.p_out = "running"]
          /\ pc' = "read_id1"
          /\ exc' = exc
       \/ /\ proc' = proc
          /\ pc' = "close_fout"
          /\ exc' = TRUE
    /\ UNCHANGED <<inputVars, bc_pc, cmd, pos, pipe, rdClosed, outPipe, outClosed,
                   fileVars, locals, count, emitted, rcVars>>

\* readline(): blocks until a line or end of file; "" at end of file
CanRead(p) == pipe[p] # <<>> \/ proc[p] # "running"
NextLine(p) == IF pipe[p] # <<>> THEN Head(pipe[p]) ELSE <<>>
Consume(p) == pipe' = [pipe EXCEPT ![p] = IF @ # <<>> THEN Tail(@) ELSE @]

\* the local variable `target` takes the line just read; the sequence and
\* quality lines are stripped, the separator lines are dropped
Store(target, l) ==
    /\ r1_id' = IF target = "r1_id" THEN l ELSE r1_id
    /\ r2_id' = IF target = "r2_id" THEN l ELSE r2_id
    /\ r1_seq' = IF target = "r1_seq" THEN Strip(l) ELSE r1_seq
    /\ r2_seq' = IF target = "r2_seq" THEN Strip(l) ELSE r2_seq
    /\ r1_qual' = IF target = "r1_qual" THEN Strip(l) ELSE r1_qual
    /\ r2_qual' = IF target = "r2_qual" THEN Strip(l) ELSE r2_qual

\* One readline() of the loop at position `here`: the line read from `p`
\* goes to the local `target`, or UnicodeDecodeError is raised.
ReadStep(here, p, next, target) ==
    /\ pc = here
    /\ CanRead(p)
    /\ Consume(p)
    /\ IF NextLine(p) = BadLine
       THEN /\ exc' = TRUE
            /\ pc' = "exit_pout"
            /\ UNCHANGED locals
       ELSE /\ exc' = exc
            /\ pc' = next
            /\ Store(target, NextLine(p))
    /\ UNCHANGED <<inputVars, bc_pc, cmd, proc, pos, rdClosed, outPipe, outClosed,
                   fileVars, count, emitted, rcVars>>

\* faulty variant: the loop also stops when stream B is at its end
AfterIdsEitherEmpty ==
    IF r1_id = <<>> \/ r2_id = <<>> THEN "exit_pout" ELSE "read_seq1"

\* `if not r1_id: break`, taken right after the two identifier reads
AfterIds == IF r1_id = <<>> THEN "exit_pout" ELSE "read_seq1"

\* faulty variant: the sequence of read 2 is taken from stream A
ReadSeq2FromR1 == ReadStep("read_seq2", "p1", "read_plus1", "r2_seq")

\* faulty variant: the separator line of stream A is not consumed
ReadPlus1NoRead ==
    /\ pc = "read_plus1"
    /\ pc' = "read_plus2"
    /\ UNCHANGED <<inputVars, bc_pc, cmd, exc, stageVars, fileVars, locals, count,
                   emitted, rcVars>>

ReadId1 == ReadStep("read_id1", "p1", "read_id2", "r1_id")
ReadId2 == ReadStep("read_id2", "p2", AfterIds, "r2_id")
ReadSeq1 == ReadStep("read_seq1", "p1", "read_seq2", "r1_seq")
ReadSeq2 == ReadStep("read_seq2", "p2", "read_plus1", "r2_seq")
ReadPlus1 == ReadStep("read_plus1", "p1", "read_plus2", "none")
ReadPlus2 == ReadStep("read_plus2", "p2", "read_qual1", "none")
ReadQual1 == ReadStep("read_qual1", "p1", "read_qual2", "r1_qual")
ReadQual2 == ReadStep("read_qual2", "p2", "write", "r2_qual")

\* lines 100-104
r2_seq_rc == InlineReverseComplement(r2_seq)
r2_qual_rev == Reverse(r2_qual)
\* faulty variant: the quality line gets no padding
merged_qual_unpadded == r1_qual \o r2_qual_rev

merged_seq == r1_seq \o pad_seq \o r2_seq_rc
merged_qual == r1_qual \o pad_qual \o r2_qual_rev

\* faulty variant: the identifier of read 2 is written instead of read 1's
MergedRecordR2Id == <<Strip(r2_id), merged_seq, <<"+">>, merged_qual>>

\* line 107: the four lines written for one pair
MergedRecord == <<Strip(r1_id), merged_seq, <<"+">>, merged_qual>>

\* fout_stream.write: blocks while the pipe is full; BrokenPipeError once
\* the compressor is gone
WriteRecord ==
    /\ pc = "write"
    /\ IF proc.p_out = "running"
       THEN /\ Len(outPipe) < PipeCap
            /\ outPipe' = Append(outPipe, MergedRecord)
            /\ emitted' = Append(emitted, MergedRecord)
            /\ count' = count + 1
            /\ pc' = "read_id1"
            /\ exc' = exc
       ELSE /\ exc' = TRUE
            /\ pc' = "exit_pout"
            /\ UNCHANGED <<outPipe, emitted, count>>
    /\ UNCHANGED <<inputVars, bc_pc, cmd, proc, pos, pipe, rdClosed, outClosed,
                   fileVars, locals, rcVars>>

\* Popen.__exit__ of p_out: close stdin, then wait for the child
ExitPOut ==
    /\ pc = "exit_pout"
    /\ outClosed' = TRUE
    /\ pc' = "wait_pout"
    /\ UNCHANGED <<inputVars, bc_pc, cmd, exc, proc, pos, pipe, rdClosed, outPipe,
                   fileVars, locals, count, emitted, rcVars>>

\* faulty variant: the with-block is left without waiting for the compressor
WaitPOutNoWait ==
    /\ pc = "wait_pout"
    /\ pc' = "close_fout"
    /\ UNCHANGED <<inputVars, bc_pc, cmd, exc, stageVars, fileVars, locals, count,
                   emitted, rcVars>>

WaitPOut ==
    /\ pc = "wait_pout"
    /\ proc.p_out # "running"
    /\ pc' = "close_fout"
    /\ UNCHANGED <<inputVars, bc_pc, cmd, exc, stageVars, fileVars, locals, count,
                   emitted, rcVars>>

\* f_out_raw.__exit__
CloseFOut ==
    /\ pc = "close_fout"
    /\ pc' = "exit_p2"
    /\ UNCHANGED <<inputVars, bc_pc, cmd, exc, stageVars, fileVars, locals, count,
                   emitted, rcVars>>

\* faulty variant: the decompressor is waited for with its stdout left open
ExitDecompNoClose(here, p, next) ==
    /\ pc = here
    /\ pc' = next
    /\ UNCHANGED <<inputVars, bc_pc, cmd, exc, stageVars, fileVars, locals, count,
                   emitted, rcVars>>

\* Popen.__exit__ of a decompressor: close its stdout, then wait for it
ExitDecomp(here, p, next) ==
    /\ pc = here
    /\ rdClosed' = [rdClosed EXCEPT ![p] = TRUE]
    /\ pipe' = [pipe EXCEPT ![p] = <<>>]
    /\ pc' = next
    /\ UNCHANGED <<inputVars, bc_pc, cmd, exc, proc, pos, outPipe, outClosed,
                   fileVars, locals, count, emitted, rcVars>>

WaitDecomp(here, p, next) ==
    /\ pc = here
    /\ proc[p] # "running"
    /\ pc' = next
    /\ UNCHANGED <<inputVars, bc_pc, cmd, exc, stageVars, fileVars, locals, count,
                   emitted, rcVars>>

\* leaving the outer with-block: line 113 or the except clause
AfterWith == IF exc THEN "except" ELSE "success"

ExitP2 == ExitDecomp("exit_p2", "p2", "wait_p2")
WaitP2 == WaitDecomp("wait_p2", "p2", "exit_p1")
ExitP1 == ExitDecomp("exit_p1", "p1", "wait_p1")
WaitP1 == WaitDecomp("wait_p1", "p1", AfterWith)

\* line 113, then the normal return
Success ==
    /\ pc = "success"
    /\ pc' = "returned"
    /\ UNCHANGED <<inputVars, bc_pc, cmd, exc, stageVars, fileVars, locals, count,
                   emitted, rcVars>>

\* faulty variant: the handler re-raises without deleting the file
ExceptHandlerKeepFile ==
    /\ pc = "except"
    /\ pc' = "raised"
    /\ UNCHANGED <<inputVars, bc_pc, cmd, exc, stageVars, fileVars, locals, count,
                   emitted, rcVars>>

\* lines 115-120: delete the incomplete file, then re-raise
ExceptHandler ==
    /\ pc = "except"
    /\ fileExists' = FALSE
    /\ pc' = "raised"
    /\ UNCHANGED <<inputVars, bc_pc, cmd, exc, stageVars, fileContent, created,
                   locals, count, emitted, rcVars>>

(* --------------------------- the gzip stages --------------------------- *)
Input(p) == IF p = "p1" THEN fastqA ELSE fastqB

\* a decompressor writes its next line; blocks while the pipe is full
DecompWrite(p) ==
    /\ proc[p] = "running"
    /\ ~rdClosed[p]
    /\ pos[p] < Len(Input(p))
    /\ Len(pipe[p]) < PipeCap
    /\ pipe' = [pipe EXCEPT ![p] = Append(@, Input(p)[pos[p] + 1])]
    /\ pos' = [pos EXCEPT ![p] = @ + 1]
    /\ UNCHANGED <<inputVars, bc_pc, cmd, pc, exc, proc, rdClosed, outPipe, outClosed,
                   fileVars, locals, count, emitted, rcVars>>

\* ... exits with status 0 after its last line
DecompExit(p) ==
    /\ proc[p] = "running"
    /\ pos[p] = Len(Input(p))
    /\ proc' = [proc EXCEPT ![p] = "exited_ok"]
    /\ UNCHANGED <<inputVars, bc_pc, cmd, pc, exc, pos, pipe, rdClosed, outPipe,
                   outClosed, fileVars, locals, count, emitted, rcVars>>

\* ... exits with an error after some complete records (missing or
\* truncated input file, crash)
DecompFail(p) ==
    /\ proc[p] = "running"
    /\ pos[p] % 4 = 0
    /\ proc' = [proc EXCEPT ![p] = "exited_err"]
    /\ UNCHANGED <<inputVars, bc_pc, cmd, pc, exc, pos, pipe, rdClosed, outPipe,
                   outClosed, fileVars, locals, count, emitted, rcVars>>

\* ... is killed by SIGPIPE when it writes after the loop closed the pipe
DecompSigpipe(p) ==
    /\ proc[p] = "running"
    /\ rdClosed[p]
    /\ pos[p] < Len(Input(p))
    /\ proc' = [proc EXCEPT ![p] = "killed"]
    /\ UNCHANGED <<inputVars, bc_pc, cmd, pc, exc, pos, pipe, rdClosed, outPipe,
                   outClosed, fileVars, locals, count, emitted, rcVars>>

\* the compressor takes one record from its stdin and stores it in the file
CompressRecord ==
    /\ proc.p_out = "running"
    /\ outPipe # <<>>
    /\ fileContent' = Append(fileContent, Head(outPipe))
    /\ outPipe' = Tail(outPipe)
    /\ UNCHANGED <<inputVars, bc_pc, cmd, pc, exc, proc, pos, pipe, rdClosed,
                   outClosed, fileExists, created, locals, count, emitted, rcVars>>

\* ... exits with status 0 at end of input
CompressExit ==
    /\ proc.p_out = "running"
    /\ outClosed
    /\ outPipe = <<>>
    /\ proc' = [proc EXCEPT !.p_out = "exited_ok"]
    /\ UNCHANGED <<inputVars, bc_pc, cmd, pc, exc, pos, pipe, rdClosed, outPipe,
                   outClosed, fileVars, locals, count, emitted, rcVars>>

\* ... exits with an error (disk full, crash); unread input is lost
CompressFail ==
    /\ proc.p_out = "running"
    /\ proc' = [proc EXCEPT !.p_out = "exited_err"]
    /\ outPipe' = <<>>
    /\ UNCHANGED <<inputVars, bc_pc, cmd, pc, exc, pos, pipe, rdClosed, outClosed,
                   fileVars, locals, count, emitted, rcVars>>

DecompP1 ==
    DecompWrite("p1") \/ DecompExit("p1") \/ DecompFail("p1") \/ DecompSigpipe("p1")
DecompP2 ==
    DecompWrite("p2") \/ DecompExit("p2") \/ DecompFail("p2") \/ DecompSigpipe("p2")

Next ==
    \/ BuildCommandEnter \/ BuildCommandAfterStitch \/ BuildCommandRaise
    \/ Popen1 \/ Popen2 \/ OpenOutput \/ PopenOut
    \/ ReadId1 \/ ReadId2 \/ ReadSeq1 \/ ReadSeq2
    \/ ReadPlus1 \/ ReadPlus2 \/ ReadQual1 \/ ReadQual2
    \/ WriteRecord
    \/ ExitPOut \/ WaitPOut \/ CloseFOut \/ ExitP2 \/ WaitP2 \/ ExitP1 \/ WaitP1
    \/ Success \/ ExceptHandler
    \/ DecompP1 \/ DecompP2
    \/ CompressRecord \/ CompressExit \/ CompressFail

Spec == Init /\ [][Next]_vars

(* ----------------------------- scheduling ------------------------------ *)
\* the steps of the Python process: build_command and the stitching loop
LoopStep ==
    \/ BuildCommandEnter \/ BuildCommandAfterStitch \/ BuildCommandRaise
    \/ Popen1 \/ Popen2 \/ OpenOutput \/ PopenOut
    \/ ReadId1 \/ ReadId2 \/ ReadSeq1 \/ ReadSeq2
    \/ ReadPlus1 \/ ReadPlus2 \/ ReadQual1 \/ ReadQual2
    \/ WriteRecord
    \/ ExitPOut \/ WaitPOut \/ CloseFOut \/ ExitP2 \/ WaitP2 \/ ExitP1 \/ WaitP1
    \/ Success \/ ExceptHandler

\* the steps a child takes when it is scheduled and does not crash
DecompRun(p) == DecompWrite(p) \/ DecompExit(p) \/ DecompSigpipe(p)
CompressRun == CompressRecord \/ CompressExit

\* The operating system runs each of the four processes whenever it is
\* not blocked; crashes of the children may or may not happen.
FairSpec ==
    /\ Spec
    /\ WF_vars(LoopStep)
    /\ WF_vars(DecompRun("p1"))
    /\ WF_vars(DecompRun("p2"))
    /\ WF_vars(CompressRun)

(* -------------------- reverse-complement harness ----------------------- *)
RcAlphabet == {"A", "T", "C", "G", "N", "a", "t", "c", "g", "n", "b", "X", "-"}

SeqsUpTo(S, n) == UNION {[1..k -> S] : k \in 0..n}

InitRC ==
    /\ n_padding = 0 /\ r2_given = FALSE /\ fastqA = <<>> /\ fastqB = <<>>
    /\ bc_pc = "off" /\ cmd = NoCmd
    /\ StitchIdle
    /\ rc_pc = "call"
    /\ rc_in \in SeqsUpTo(RcAlphabet, MaxSeqLen)
    /\ rc_out = <<>> /\ rc_inline = <<>> /\ rc_twice = <<>>

\* get_reverse_complement(rc_in) and the loop's inline transform of rc_in
RcCall ==
    /\ rc_pc = "call"
    /\ rc_out' = get_reverse_complement(rc_in)
    /\ rc_inline' = InlineReverseComplement(rc_in)
    /\ rc_pc' = "once"
    /\ UNCHANGED <<inputVars, bc_pc, cmd, stitchVars, rc_in, rc_twice>>

\* get_reverse_complement applied to the previous result
RcCallAgain ==
    /\ rc_pc = "once"
    /\ rc_twice' = get_reverse_complement(rc_out)
    /\ rc_pc' = "twice"
    /\ UNCHANGED <<inputVars, bc_pc, cmd, stitchVars, rc_in, rc_out, rc_inline>>

NextRC == RcCall \/ RcCallAgain

SpecRC == InitRC /\ [][NextRC]_vars

(* ============================== claims ================================= *)
\* the complement the documentation describes: A<->T, C<->G, N<->N, case kept
DnaAlphabet == {"A", "T", "C", "G", "N", "a", "t", "c", "g", "n"}
DnaFrom == <<"A", "T", "C", "G", "N", "a", "t", "c", "g", "n">>
DnaTo == <<"T", "A", "G", "C", "N", "t", "a", "g", "c", "n">>

DnaComplement(c) ==
    IF \E i \in 1..Len(DnaFrom) : DnaFrom[i] = c
    THEN DnaTo[CHOOSE i \in 1..Len(DnaFrom) : DnaFrom[i] = c]
    ELSE c

DnaReverseComplement(s) == Reverse([i \in 1..Len(s) |-> DnaComplement(s[i])])

\* the fields of the i-th record of each input file, as the records pair up
NumA == Len(fastqA) \div 4
NumB == Len(fastqB) \div 4
IdA(i) == Strip(fastqA[4 * (i - 1) + 1])
SeqA(i) == Strip(fastqA[4 * (i - 1) + 2])
QualA(i) == Strip(fastqA[4 * (i - 1) + 4])
SeqB(i) == Strip(fastqB[4 * (i - 1) + 2])
QualB(i) == Strip(fastqB[4 * (i - 1) + 4])

\* the i-th record of stream B reached the loop, so iteration i read a pair
PairConsumed(i) == i <= Len(emitted) /\ 4 * i <= pos.p2

\* C1: every pair consumed in one iteration is emitted with sequence
\* r1.sequence + 'N' * n_padding + reverse_complement(r2.sequence) and quality
\* r1.quality + '!' * n_padding + r2.quality reversed, where
\* reverse_complement is the documented A<->T, C<->G, N<->N transform.
C1_StitchedRecord ==
    \A i \in 1..Len(emitted) :
        PairConsumed(i) =>
            /\ emitted[i][2] =
                   SeqA(i) \o Repeat("N", n_padding) \o DnaReverseComplement(SeqB(i))
            /\ emitted[i][4] =
                   QualA(i) \o Repeat("!", n_padding) \o Reverse(QualB(i))

\* C2: get_reverse_complement and the inline transform both complement every
\* character by A<->T, C<->G, N<->N (case kept), leave any other character
\* unchanged, and reverse the string.
C2_ReverseComplement ==
    rc_pc \in {"once", "twice"} =>
        /\ rc_out = DnaReverseComplement(rc_in)
        /\ rc_inline = DnaReverseComplement(rc_in)

\* C3: applying get_reverse_complement twice to a sequence over
\* {A,T,C,G,N} in any case gives the sequence back.
C3_Involution ==
    (rc_pc = "twice" /\ \A i \in 1..Len(rc_in) : rc_in[i] \in DnaAlphabet) =>
        rc_twice = rc_in

\* a Popen or the open() raised before the compression stage was launched
StartFailed == exc /\ proc.p_out = "none"

\* some gzip stage has exited with an error status
StageFailed == \E p \in {"p1", "p2", "p_out"} : proc[p] = "exited_err"

\* C4: a failure raised after output_path was created (a stage failing to
\* start, a read error, a failed write to the compressor) reaches the caller
\* only after the partial file is deleted, and as an exception, never as a
\* normal return.
C4_CleanupBeforeRaise ==
    /\ (pc = "raised" \/ bc_pc = "raised") => ~fileExists
    /\ exc => (pc \notin {"success", "returned"} /\ bc_pc # "done")
    /\ bc_pc = "raised" => exc

C4_Witness ==
    /\ bc_pc = "raised"
    /\ created = 1
    /\ fileContent # <<>>
    /\ ~fileExists

\* C5: when a decompression stage fails to start, or exits with an error
\* before delivering its whole file, the run never succeeds: it ends raised
\* with no output file.
C5_DecompressFailureSignalled ==
    (\/ exc /\ (proc.p1 = "none" \/ proc.p2 = "none")
     \/ \E p \in {"p1", "p2"} : proc[p] = "exited_err" /\ pos[p] < Len(Input(p)))
        => /\ pc \notin {"success", "returned"}
           /\ (pc = "raised" => ~fileExists)

\* C6: an invocation moves IDLE -> STAGES_LAUNCHED -> STREAMING and ends in
\* exactly one of COMPLETED (the file exists, was created once and holds
\* every merged record) or FAILED_CLEANED (the file is absent and an error
\* was raised).
C6_Lifecycle ==
    /\ pc \in {"idle", "popen1"} => (proc.p1 = "none" /\ count = 0 /\ ~fileExists)
    /\ pc \in {"popen2", "open", "popen_out"} => (proc.p1 # "none" /\ count = 0)
    /\ pc = "returned" =>
           /\ ~exc
           /\ fileExists
           /\ created = 1
           /\ fileContent = emitted
    /\ pc = "raised" => (exc /\ ~fileExists /\ created <= 1)

\* both files hold whole, decodable records, the same number in each
EqualWellFormedInputs ==
    /\ Len(fastqA) = Len(fastqB)
    /\ \A i \in 1..Len(fastqB) : fastqB[i] # BadLine

\* C7: with k well-formed records in each input and no stage failing, the
\* loop writes one record per iteration, exactly k in all, and then returns
\* normally.
C7_RecordCount ==
    (EqualWellFormedInputs /\ ~StartFailed /\ ~StageFailed) =>
        /\ ~exc
        /\ count = Len(emitted)
        /\ Len(emitted) <= NumA
        /\ pc \in {"exit_pout", "wait_pout", "close_fout", "exit_p2", "wait_p2",
                   "exit_p1", "wait_p1", "success", "returned"}
               => Len(emitted) = NumA
        /\ pc \notin {"except", "raised"}
        /\ pc = "returned" => (fileExists /\ fileContent = emitted)

C7_Witness ==
    /\ EqualWellFormedInputs /\ ~StageFailed
    /\ pc = "returned"
    /\ NumA = 2
    /\ Len(emitted) = 2

IsPrefix(s, t) == Len(s) <= Len(t) /\ SubSeq(t, 1, Len(s)) = s

\* C8: the i-th record written carries the identifier and sequence of the
\* i-th record of stream A joined with the i-th record of stream B (as the
\* loop transforms it); nothing is reordered, skipped or duplicated, and the
\* compressor stores the records in that order.
C8_OrderPreserved ==
    /\ Len(emitted) <= NumA
    /\ \A i \in 1..Len(emitted) :
           /\ emitted[i][1] = IdA(i)
           /\ IsPrefix(SeqA(i) \o Repeat("N", n_padding), emitted[i][2])
           /\ PairConsumed(i) =>
                  /\ emitted[i][2] = SeqA(i) \o Repeat("N", n_padding)
                                         \o Reverse(Translate(SeqB(i)))
                  /\ emitted[i][4] = QualA(i) \o Repeat("!", n_padding)
                                         \o Reverse(QualB(i))
    /\ IsPrefix(fileContent, emitted)

C8_Witness ==
    /\ Len(emitted) = 2
    /\ PairConsumed(2)
    /\ emitted[1] # emitted[2]
    /\ fileContent = emitted

\* C9: every emitted record has len(sequence) = len(r1.sequence) + n_padding
\* + len(r2.sequence), and sequence and quality are equally long whenever
\* both input records have sequence and quality of equal length.
C9_Lengths ==
    \A i \in 1..Len(emitted) :
        LET r2s == IF PairConsumed(i) THEN SeqB(i) ELSE <<>>
            r2q == IF PairConsumed(i) THEN QualB(i) ELSE <<>>
        IN  /\ Len(emitted[i][2]) = Len(SeqA(i)) + n_padding + Len(r2s)
            /\ (Len(SeqA(i)) = Len(QualA(i)) /\ Len(r2s) = Len(r2q))
                   => Len(emitted[i][2]) = Len(emitted[i][4])

C9_Witness ==
    /\ Len(emitted) >= 1
    /\ PairConsumed(1)
    /\ n_padding = 2
    /\ Len(SeqB(1)) = Len(QualB(1))
    /\ Len(emitted[1][2]) = 6

\* C10: the stitcher runs only when n_padding > 0 and a read-2 file is
\* given, and then the command takes the stitched file as -r1 and no -r2;
\* with n_padding = 0 nothing is stitched, no file is created, and the
\* original read files are passed through.
C10_StitchOnlyWithPadding ==
    /\ pc # "idle" => (n_padding > 0 /\ r2_given)
    /\ (bc_pc = "done" /\ n_padding > 0 /\ r2_given) =>
           (pc = "returned" /\ cmd = [r1 |-> "stitched_file", r2 |-> "none"])
    /\ n_padding = 0 =>
           /\ pc = "idle" /\ created = 0 /\ ~fileExists /\ emitted = <<>>
           /\ bc_pc = "done" =>
                  cmd = [r1 |-> "fastq_r1",
                         r2 |-> IF r2_given THEN "fastq_r2" ELSE "none"]

C10_Witness ==
    /\ bc_pc = "done"
    /\ cmd = [r1 |-> "stitched_file", r2 |-> "none"]
    /\ fileExists

IdB(i) == Strip(fastqB[4 * (i - 1) + 1])
SepA(i) == Strip(fastqA[4 * (i - 1) + 3])
SepB(i) == Strip(fastqB[4 * (i - 1) + 3])

\* C11 as stated: every merged record carries record1's identifier and an
\* input separator line passed through with its '+comment' text.
C11_SeparatorPassedThrough ==
    \A i \in 1..Len(emitted) :
        /\ emitted[i][1] = IdA(i)
        /\ \/ emitted[i][3] = SepA(i)
           \/ PairConsumed(i) /\ emitted[i][3] = SepB(i)

\* C11 (amended): every merged record carries record1's identifier, stripped
\* of surrounding whitespace and never record2's, and its separator line is
\* always a bare "+", whatever the input separator lines hold.
C11_IdKeptSeparatorBare ==
    \A i \in 1..Len(emitted) :
        /\ emitted[i][1] = IdA(i)
        /\ PairConsumed(i) => emitted[i][1] # IdB(i)
        /\ emitted[i][3] = <<"+">>

C11_Witness ==
    /\ Len(emitted) >= 2
    /\ PairConsumed(2)
    /\ SepA(2) # <<"+">>
    /\ SepB(2) # <<"+">>
    /\ emitted[2][1] = IdA(2)

\* the loop has left `while True`
LoopEnded ==
    pc \in {"exit_pout", "wait_pout", "close_fout", "exit_p2", "wait_p2",
            "exit_p1", "wait_p1", "success", "returned", "except", "raised"}

\* lines of stream B the loop has taken from its pipe
LinesReadB == pos.p2 - Len(pipe.p2)

\* no line of stream B that the loop reaches is undecodable
NoBadLineReached ==
    \A i \in 1..Len(fastqB) : (i <= 4 * NumA + 1) => fastqB[i] # BadLine

\* C12: the loop ends exactly when the identifier read of stream A is empty
\* and never looks at the end of stream B. Without a failing stage the
\* records written number those of stream A; when B is shorter the remaining
\* A records are written with an empty second mate and the run still
\* returns normally; when B is longer its excess records stay unread and the
\* run returns normally.
C12_LoopEndsOnStreamA ==
    /\ (pc \in {"read_seq1", "read_seq2", "read_plus1", "read_plus2",
                "read_qual1", "read_qual2", "write"}) => r1_id # <<>>
    /\ ~rdClosed.p2 => LinesReadB <= 4 * NumA + 1
    /\ (~StartFailed /\ ~StageFailed /\ NoBadLineReached) =>
           /\ ~exc
           /\ LoopEnded => Len(emitted) = NumA
           /\ \A i \in 1..Len(emitted) :
                  i > NumB =>
                      /\ emitted[i][2] = SeqA(i) \o Repeat("N", n_padding)
                      /\ emitted[i][4] = QualA(i) \o Repeat("!", n_padding)

C12_Witness ==
    /\ ~StageFailed
    /\ pc = "returned"
    /\ NumB = 1
    /\ NumA = 2
    /\ Len(emitted) = 2
    /\ emitted[2][2] = SeqA(2) \o Repeat("N", n_padding)

\* C13: the stitcher reports success and returns only after the last record
\* was written, p_out.stdin was closed and the compressor has exited (having
\* stored every record when it exited normally); nothing is written to the
\* output stream once it is closed.
C13_ReturnAfterFlush ==
    /\ pc \in {"success", "returned"} =>
           /\ outClosed
           /\ proc.p_out \in {"exited_ok", "exited_err"}
           /\ outPipe = <<>>
           /\ count = Len(emitted)
           /\ proc.p_out = "exited_ok" => fileContent = emitted
    /\ outClosed => (LoopEnded /\ pc # "exit_pout")
    /\ (outClosed /\ proc.p_out = "exited_ok") => fileContent = emitted

C13_Witness ==
    /\ pc = "returned"
    /\ Len(emitted) = 2
    /\ outClosed
    /\ proc.p_out = "exited_ok"
    /\ fileContent = emitted

====
